---- MODULE Spec2Model ----
(***************************************************************************)
(* Model of .github/scripts/analyze_code_changes.py: the CodeAnalyzer that *)
(* diffs two revisions of a git repository, classifies the code elements   *)
(* of the affected files as added / modified / deleted, maintains the      *)
(* persisted element database and writes one change report per run.        *)
(*                                                                         *)
(* Abstractions:                                                           *)
(*  - a file's bytes are the sequence of top-level syntax nodes tree-sitter *)
(*    finds in them, one node per line; a node is [type, name, code];      *)
(*  - a path is [stem, ext]; os.path.join(repo_path, .) followed by        *)
(*    os.path.relpath(., repo_path) is the identity on such paths;         *)
(*  - the md5 digest of "{rel_path}:{name}:{type}" is collision free, so   *)
(*    the digest is represented by the triple it is computed from;         *)
(*  - a revision is a string: a commit sha, "HEAD", the empty-tree object  *)
(*    or the all-zero sha GitHub sends for a ref that did not exist.       *)
(***************************************************************************)
EXTENDS Integers, Sequences, FiniteSets, TLC

\* Bound: number of invocations of the script in one behaviour.
MaxRuns == 3

\* Python's None, also used for a key that a dict does not have.
None == "None"

-----------------------------------------------------------------------------
(* Paths and languages                                                     *)

PA == [stem |-> "a", ext |-> ".py"]
PB == [stem |-> "b", ext |-> ".py"]
PN == [stem |-> "a", ext |-> ".txt"]

\* The paths of the modelled repository, in git's (sorted) output order.
PathOrder == <<PA, PN, PB>>
Paths == {PathOrder[i] : i \in DOMAIN PathOrder}

LANGUAGE_EXTENSIONS ==
    [e \in {".py", ".js", ".jsx", ".ts", ".tsx", ".java", ".go", ".rs"} |->
        CASE e = ".py" -> "python"
          [] e \in {".js", ".jsx"} -> "javascript"
          [] e = ".ts" -> "typescript"
          [] e = ".tsx" -> "tsx"
          [] e = ".java" -> "java"
          [] e = ".go" -> "go"
          [] OTHER -> "rust"]

\* self.languages: the grammars _setup_tree_sitter loaded (all of LANGUAGE_MODULES).
Languages == {"python", "javascript", "typescript", "tsx", "java", "go", "rust"}

GetFileLanguage(file_path) ==
    IF file_path.ext \in DOMAIN LANGUAGE_EXTENSIONS
    THEN LANGUAGE_EXTENSIONS[file_path.ext]
    ELSE None

\* The guard `if not lang_name or lang_name not in self.languages: continue`, negated.
Supported(file_path) ==
    LET lang_name == GetFileLanguage(file_path)
    IN  lang_name # None /\ lang_name \in Languages

-----------------------------------------------------------------------------
(* File contents and the structural parser                                 *)

F1 == [type |-> "function_definition", name |-> "f", code |-> "def f(): return 1"]
F2 == [type |-> "function_definition", name |-> "f", code |-> "def f(): return 2"]
G1 == [type |-> "class_definition", name |-> "g", code |-> "class g: pass"]
FC == [type |-> "class_definition", name |-> "f", code |-> "class f: pass"]
H1 == [type |-> "function_definition", name |-> "h", code |-> "def h(): pass"]
\* A statement that is no definition.
ST == [type |-> "expression_statement", name |-> "", code |-> "x = 1"]
\* A subtree nested deeper than the interpreter's recursion limit: the
\* recursive generator _iter_tree raises RecursionError on it.
DEEP == [type |-> "deep_nesting", name |-> "", code |-> "((((...))))"]

TA == <<F1>>
TB == <<F1, G1>>
TC == <<F2, G1>>
TD == <<F1, F2>>
TE == <<ST, F1, G1, FC>>
TF == <<F2, G1, H1>>
TX == <<DEEP>>

Texts == {TA, TB, TC, TD, TE, TF, TX}

\* Lines 410-419: the node types that are code elements.
ElementType(node_type) ==
    CASE node_type = "function_definition" -> "function"
      [] node_type = "class_definition" -> "class"
      [] node_type = "method_definition" -> "method"
      [] node_type = "function_declaration" -> "function"
      [] node_type = "class_declaration" -> "class"
      [] OTHER -> None

\* parser.parse / _iter_tree raise on this content.
ParserRaises(content) == \E i \in DOMAIN content : content[i].type = "deep_nesting"

\* _parse_file on content that was read: the elements in tree order.
ParseContent(file_path, content) ==
    LET all == [i \in DOMAIN content |->
                  [type |-> ElementType(content[i].type),
                   name |-> content[i].name,
                   start_line |-> i,
                   end_line |-> i,
                   code |-> content[i].code,
                   file_path |-> file_path]]
    IN  SelectSeq(all, LAMBDA e : e.type # None /\ e.name # "")

-----------------------------------------------------------------------------
(* Element identity and the identity maps                                  *)

\* Mutant of GenerateElementId: the path is left out of the digest.
GenerateElementIdNoPath(element) == <<element.name, element.type>>

\* _generate_element_id: the digest of "{rel_path}:{name}:{type}".
GenerateElementId(element) == <<element.file_path, element.name, element.type>>

\* The keys of {self._generate_element_id(e): e for e in elements}, in the
\* dict's iteration order (the order of first insertion).
RECURSIVE KeysInOrder(_)
KeysInOrder(elements) ==
    IF elements = <<>> THEN <<>>
    ELSE LET init == SubSeq(elements, 1, Len(elements) - 1)
             keys == KeysInOrder(init)
             id   == GenerateElementId(elements[Len(elements)])
         IN  IF \E i \in DOMAIN keys : keys[i] = id THEN keys ELSE Append(keys, id)

\* The dict comprehension itself: a later element replaces an earlier one
\* of the same identity.
ElementsMap(elements) ==
    LET ids == {GenerateElementId(elements[i]) : i \in DOMAIN elements}
        last(id) == CHOOSE i \in DOMAIN elements :
                       /\ GenerateElementId(elements[i]) = id
                       /\ \A j \in DOMAIN elements :
                            GenerateElementId(elements[j]) = id => j <= i
    IN  [id \in ids |-> elements[last(id)]]

-----------------------------------------------------------------------------
(* The element database                                                    *)

EmptyElements == [id \in {} |-> None]

\* The record written for an element the modified-file pass classifies as
\* modified (lines 551-557): it has no added_at and no deleted_at key.
ModifiedRecord(element, after_commit) ==
    [type |-> element.type, name |-> element.name,
     file_path |-> element.file_path, code |-> element.code,
     added_at |-> None, last_modified |-> after_commit, deleted_at |-> None]

\* The record written for an added element (lines 566-572 and 605-611).
AddedRecord(element, after_commit) ==
    [type |-> element.type, name |-> element.name,
     file_path |-> element.file_path, code |-> element.code,
     added_at |-> after_commit, last_modified |-> None, deleted_at |-> None]

\* Mutant of Upsert: an existing record is updated key by key, so a
\* deleted_at it carries survives.
UpsertKeepsDeletedAt(elements, element_id, record) ==
    [id \in DOMAIN elements \cup {element_id} |->
        IF id # element_id THEN elements[id]
        ELSE IF id \in DOMAIN elements
        THEN [record EXCEPT !.deleted_at = elements[id].deleted_at]
        ELSE record]

\* self.code_elements_db["elements"][element_id] = record
Upsert(elements, element_id, record) ==
    [id \in DOMAIN elements \cup {element_id} |->
        IF id = element_id THEN record ELSE elements[id]]

\* Mutant of MarkDeleted: a deleted element the database does not hold gets
\* a record of its own.
MarkDeletedOrRecord(elements, element_id, after_commit) ==
    IF element_id \in DOMAIN elements
    THEN [elements EXCEPT ![element_id].deleted_at = after_commit]
    ELSE Upsert(elements, element_id,
                [type |-> element_id[3], name |-> element_id[2],
                 file_path |-> element_id[1], code |-> "",
                 added_at |-> None, last_modified |-> None, deleted_at |-> after_commit])

\* Mutant of MarkDeleted: the annotation also stamps last_modified.
MarkDeletedTouchesModified(elements, element_id, after_commit) ==
    IF element_id \in DOMAIN elements
    THEN [elements EXCEPT ![element_id].deleted_at = after_commit,
                          ![element_id].last_modified = after_commit]
    ELSE elements

\* Mutant of MarkDeleted: the record of a deleted element is removed.
MarkDeletedPurge(elements, element_id, after_commit) ==
    [id \in DOMAIN elements \ {element_id} |-> elements[id]]

\* if element_id in elements: elements[element_id]["deleted_at"] = after_commit
MarkDeleted(elements, element_id, after_commit) ==
    IF element_id \in DOMAIN elements
    THEN [elements EXCEPT ![element_id].deleted_at = after_commit]
    ELSE elements

\* The state a run's classification carries: the in-memory element records
\* and the three report lists.
Acc(elements, added, modified, deleted) ==
    [elements |-> elements, added |-> added, modified |-> modified, deleted |-> deleted]

-----------------------------------------------------------------------------
(* Classification (the loops of analyze_repo_changes)                      *)

\* Mutant of CodeChanged: the whole element records are compared, so a
\* definition that only moved to another line counts as modified.
CodeChangedWholeElement(before_element, after_element) == before_element # after_element

\* Line 547: only the source text decides whether an element is modified.
CodeChanged(before_element, after_element) == before_element["code"] # after_element["code"]

\* Lines 537-575: the loop over after_elements_map.
RECURSIVE FindAddedAndModified(_, _, _, _, _)
FindAddedAndModified(keys, before_elements_map, after_elements_map, acc, after_commit) ==
    IF keys = <<>> THEN acc
    ELSE LET element_id    == Head(keys)
             after_element == after_elements_map[element_id]
             next ==
                IF element_id \in DOMAIN before_elements_map
                THEN IF CodeChanged(before_elements_map[element_id], after_element)
                     THEN Acc(Upsert(acc.elements, element_id,
                                     ModifiedRecord(after_element, after_commit)),
                              acc.added, Append(acc.modified, after_element), acc.deleted)
                     ELSE acc
                ELSE Acc(Upsert(acc.elements, element_id,
                                AddedRecord(after_element, after_commit)),
                         Append(acc.added, after_element), acc.modified, acc.deleted)
         IN  FindAddedAndModified(Tail(keys), before_elements_map, after_elements_map,
                                  next, after_commit)

\* Lines 578-589: the loop over before_elements_map.
RECURSIVE FindDeleted(_, _, _, _, _)
FindDeleted(keys, before_elements_map, after_elements_map, acc, after_commit) ==
    IF keys = <<>> THEN acc
    ELSE LET element_id == Head(keys)
             next ==
                IF element_id \notin DOMAIN after_elements_map
                THEN Acc(MarkDeleted(acc.elements, element_id, after_commit),
                         acc.added, acc.modified,
                         Append(acc.deleted, before_elements_map[element_id]))
                ELSE acc
         IN  FindDeleted(Tail(keys), before_elements_map, after_elements_map,
                         next, after_commit)

\* Lines 525-589: one modified file, given its two parses.
ClassifyModifiedFile(before_elements, after_elements, acc, after_commit) ==
    LET before_elements_map == ElementsMap(before_elements)
        after_elements_map  == ElementsMap(after_elements)
        acc1 == FindAddedAndModified(KeysInOrder(after_elements), before_elements_map,
                                     after_elements_map, acc, after_commit)
    IN  FindDeleted(KeysInOrder(before_elements), before_elements_map,
                    after_elements_map, acc1, after_commit)

\* Mutant of AddAll: an element whose identity the database already holds
\* is not reported again.
RECURSIVE AddAllUnrecorded(_, _, _)
AddAllUnrecorded(elements, acc, after_commit) ==
    IF elements = <<>> THEN acc
    ELSE LET element == Head(elements)
         IN  AddAllUnrecorded(Tail(elements),
                    IF GenerateElementId(element) \in DOMAIN acc.elements
                    THEN acc
                    ELSE Acc(Upsert(acc.elements, GenerateElementId(element),
                                    AddedRecord(element, after_commit)),
                             Append(acc.added, element), acc.modified, acc.deleted),
                    after_commit)

\* Lines 600-614: every element of an added file, in parse order.
RECURSIVE AddAll(_, _, _)
AddAll(elements, acc, after_commit) ==
    IF elements = <<>> THEN acc
    ELSE LET element == Head(elements)
         IN  AddAll(Tail(elements),
                    Acc(Upsert(acc.elements, GenerateElementId(element),
                               AddedRecord(element, after_commit)),
                        Append(acc.added, element), acc.modified, acc.deleted),
                    after_commit)

\* Lines 625-636: every element of a deleted file, in parse order.
RECURSIVE DeleteAll(_, _, _)
DeleteAll(elements, acc, after_commit) ==
    IF elements = <<>> THEN acc
    ELSE LET element == Head(elements)
         IN  DeleteAll(Tail(elements),
                       Acc(MarkDeleted(acc.elements, GenerateElementId(element), after_commit),
                           acc.added, acc.modified, Append(acc.deleted, element)),
                       after_commit)

-----------------------------------------------------------------------------
(* State                                                                   *)

VARIABLES
    commits,              \* the repository's history: one snapshot (path -> content) per commit
    unreadable,           \* paths whose content `git show <rev>:<path>` fails to print
    dbFile,               \* .docai/code_elements.json
    reportFiles,          \* .docai/change_report_<after>.json, by <after>
    pc,                   \* where the current invocation of the script is
    runs,                 \* invocations started so far
    custom_commit_range,  \* analyzer._custom_commit_range (<<>> is None)
    code_elements_db,     \* analyzer.code_elements_db
    commit_range,         \* (before_commit, after_commit) of analyze_repo_changes
    affected_files,       \* the files of affected_files not yet processed
    added_elements, modified_elements, deleted_elements,
    exit_code,            \* the process's exit code (None while it runs)
    request               \* the inputs of a range resolution checked on its own

vars == <<commits, unreadable, dbFile, reportFiles, pc, runs, custom_commit_range,
          code_elements_db, commit_range, affected_files, added_elements,
          modified_elements, deleted_elements, exit_code, request>>

-----------------------------------------------------------------------------
(* The revision store (git)                                                *)

\* The sha of the i-th commit.
Shas == <<"c1", "c2">>
\* git hash-object -t tree /dev/null
EMPTY_TREE == "4b825dc"
\* The "before" GitHub sends when the pushed ref did not exist.
ZERO_SHA == "0000000"

EmptySnapshot == [p \in {} |-> <<>>]

\* repo.commit(rev) succeeds.
IsCommit(rev) ==
    \/ rev = "HEAD" /\ commits # <<>>
    \/ \E i \in DOMAIN commits : Shas[i] = rev

IsTreeish(rev) == IsCommit(rev) \/ rev = EMPTY_TREE

TreeAt(rev) ==
    IF rev = EMPTY_TREE THEN EmptySnapshot
    ELSE IF rev = "HEAD" THEN commits[Len(commits)]
    ELSE commits[CHOOSE i \in DOMAIN commits : Shas[i] = rev]

\* The checkout the script runs in: the files of the head commit.
WorkTree == IF commits = <<>> THEN EmptySnapshot ELSE commits[Len(commits)]

\* for commit in repo.iter_commits("--all", max_parents=0): ... break
FirstCommit == IF commits = <<>> THEN None ELSE Shas[1]
\* repo.head.commit.hexsha, which raises ValueError while HEAD is unborn
HeadCommit == IF commits = <<>> THEN "raises" ELSE Shas[Len(commits)]

\* The old paths git pairs with the new path q as an exact rename.
RenameSources(before_tree, after_tree, q) ==
    IF q \in DOMAIN after_tree \ DOMAIN before_tree
    THEN {p \in DOMAIN before_tree \ DOMAIN after_tree : before_tree[p] = after_tree[q]}
    ELSE {}

\* The line of `git diff --name-status` for path p, if any.
DiffLine(before_tree, after_tree, p) ==
    LET inB == p \in DOMAIN before_tree
        inA == p \in DOMAIN after_tree
        src == RenameSources(before_tree, after_tree, p)
    IN  IF inB /\ inA
        THEN IF before_tree[p] # after_tree[p]
             THEN <<[status |-> "M", parts |-> <<p>>]>> ELSE <<>>
        ELSE IF inA
        THEN IF src # {}
             THEN <<[status |-> "R", parts |-> <<CHOOSE o \in src : TRUE, p>>]>>
             ELSE <<[status |-> "A", parts |-> <<p>>]>>
        ELSE IF inB
        THEN IF \E q \in Paths : p \in RenameSources(before_tree, after_tree, q)
             THEN <<>> ELSE <<[status |-> "D", parts |-> <<p>>]>>
        ELSE <<>>

\* repo.git.diff("--name-status", before, after) for two resolvable trees.
RECURSIVE DiffFrom(_, _, _)
DiffFrom(before_tree, after_tree, i) ==
    IF i > Len(PathOrder) THEN <<>>
    ELSE DiffLine(before_tree, after_tree, PathOrder[i])
            \o DiffFrom(before_tree, after_tree, i + 1)

DiffNameStatus(before_commit, after_commit) ==
    DiffFrom(TreeAt(before_commit), TreeAt(after_commit), 1)

\* _get_file_content_at_commit: the content, or None (ok = FALSE).
GetFileContentAtCommit(file_path, commit) ==
    IF /\ file_path \notin unreadable
       /\ IsTreeish(commit)
       /\ file_path \in DOMAIN TreeAt(commit)
    THEN [ok |-> TRUE, content |-> TreeAt(commit)[file_path]]
    ELSE [ok |-> FALSE, content |-> <<>>]

\* Lines 210-232: the three lists built from the status lines.
RECURSIVE CollectStatus(_, _)
CollectStatus(lines, result) ==
    IF lines = <<>> THEN result
    ELSE LET status == Head(lines).status
             parts  == Head(lines).parts
             next ==
                CASE status = "M" ->
                        [result EXCEPT !.modified = Append(@, parts[1])]
                  [] status = "A" ->
                        [result EXCEPT !.added = Append(@, parts[1])]
                  [] status = "D" ->
                        [result EXCEPT !.deleted = Append(@, parts[1])]
                  [] status = "R" /\ Len(parts) >= 2 ->
                        [result EXCEPT !.deleted = Append(@, parts[1]),
                                       !.added = Append(@, parts[2])]
                  [] OTHER -> result
         IN  CollectStatus(Tail(lines), next)

\* Lines 201-207: against a non-commit only the "A" lines count.
RECURSIVE CollectAdded(_, _)
CollectAdded(lines, result) ==
    IF lines = <<>> THEN result
    ELSE CollectAdded(Tail(lines),
                      IF Head(lines).status = "A"
                      THEN [result EXCEPT !.added = Append(@, Head(lines).parts[1])]
                      ELSE result)

NoFiles == [raised |-> FALSE, modified |-> <<>>, added |-> <<>>, deleted |-> <<>>]

\* _get_affected_files. raised: git diff failed (GitCommandError), which
\* nothing below main() catches.
GetAffectedFiles(before_commit, after_commit) ==
    IF ~(IsTreeish(before_commit) /\ IsTreeish(after_commit))
    THEN [NoFiles EXCEPT !.raised = TRUE]
    ELSE IF ~IsCommit(before_commit)
    THEN CollectAdded(DiffNameStatus(before_commit, after_commit), NoFiles)
    ELSE CollectStatus(DiffNameStatus(before_commit, after_commit), NoFiles)

NoElements == [raised |-> FALSE, elements |-> <<>>]
NoContent == [ok |-> FALSE, content |-> <<>>]

\* _parse_file(file_path, content); content NoContent is the default None,
\* for which the file is read from the working tree.
ParseFile(file_path, given) ==
    IF ~Supported(file_path) THEN NoElements
    ELSE IF ~given.ok /\ file_path \notin DOMAIN WorkTree THEN NoElements
    ELSE LET content == IF given.ok THEN given.content ELSE WorkTree[file_path]
         IN  IF ParserRaises(content)
             THEN [raised |-> TRUE, elements |-> <<>>]
             ELSE [raised |-> FALSE, elements |-> ParseContent(file_path, content)]

\* Mutant of ParseFileAtCommit: a content that cannot be retrieved is an error.
ParseFileAtCommitStrict(file_path, commit) ==
    LET content == GetFileContentAtCommit(file_path, commit)
    IN  IF ~content.ok THEN [raised |-> TRUE, elements |-> <<>>]
        ELSE IF content.content = <<>> THEN NoElements
        ELSE ParseFile(file_path, content)

\* _parse_file_at_commit
ParseFileAtCommit(file_path, commit) ==
    LET content == GetFileContentAtCommit(file_path, commit)
    IN  IF ~content.ok \/ content.content = <<>>
        THEN NoElements
        ELSE ParseFile(file_path, content)

-----------------------------------------------------------------------------
(* Persistence                                                             *)

\* {"elements": {}, "metadata": {"last_processed_commit": None}}
EmptyDb == [wellformed |-> TRUE, elements |-> EmptyElements, last_processed_commit |-> None]
\* A JSON document without the "elements" / "metadata" keys, e.g. {}.
NoStructure == [wellformed |-> FALSE, elements |-> EmptyElements, last_processed_commit |-> None]

\* _load_code_elements_db: only json.JSONDecodeError is handled.
LoadCodeElementsDb(file) ==
    IF file.state = "json" THEN file.value ELSE EmptyDb

\* Mutant of SaveCodeElementsDb: the file is written without the
\* last-processed marker of the run.
SaveCodeElementsDbWithoutMarker(db) ==
    [state |-> "json", value |-> [db EXCEPT !.last_processed_commit = None]]

\* _save_code_elements_db
SaveCodeElementsDb(db) == [state |-> "json", value |-> db]

-----------------------------------------------------------------------------
(* Commit range                                                            *)

\* repo.iter_commits / repo.head.commit raised.
RAISES == "raises"

Truthy(x) == x # None /\ x # ""

\* main(), lines 692-725: the range built from --before / --after.
MainCustomRange(args_before, args_after, first_commit) ==
    IF args_before = None /\ args_after = None THEN <<>>
    ELSE << IF args_before # None THEN args_before
            ELSE IF first_commit \in {None, RAISES} THEN EMPTY_TREE
            ELSE first_commit,
            IF args_after = None THEN "HEAD" ELSE args_after >>

NoEvent == [file |-> "absent", before |-> None, after |-> None]

\* Mutant of GetPushCommits: the push event is looked at before the
\* custom range.
GetPushCommitsEventFirst(custom, event_name, event, first_commit, head_commit) ==
    IF /\ event_name = "push"
       /\ event.file = "json"
       /\ Truthy(event.before) /\ Truthy(event.after)
    THEN <<event.before, event.after>>
    ELSE IF custom # <<>> THEN custom
    ELSE IF first_commit = RAISES \/ head_commit = RAISES
    THEN <<EMPTY_TREE, "HEAD">>
    ELSE << IF first_commit = None THEN EMPTY_TREE ELSE first_commit, head_commit >>

\* Mutant of GetPushCommits: the fallback compares against the empty tree
\* instead of the first root commit.
GetPushCommitsEmptyTreeBaseline(custom, event_name, event, first_commit, head_commit) ==
    IF custom # <<>> THEN custom
    ELSE IF /\ event_name = "push"
            /\ event.file = "json"
            /\ Truthy(event.before) /\ Truthy(event.after)
    THEN <<event.before, event.after>>
    ELSE IF first_commit = RAISES \/ head_commit = RAISES
    THEN <<EMPTY_TREE, "HEAD">>
    ELSE <<EMPTY_TREE, head_commit>>

\* _get_push_commits. event.file is "absent" (GITHUB_EVENT_PATH unset or
\* no such file), "invalid" (reading it raises) or "json".
GetPushCommits(custom, event_name, event, first_commit, head_commit) ==
    IF custom # <<>> THEN custom
    ELSE IF /\ event_name = "push"
            /\ event.file = "json"
            /\ Truthy(event.before) /\ Truthy(event.after)
    THEN <<event.before, event.after>>
    ELSE IF first_commit = RAISES \/ head_commit = RAISES
    THEN <<EMPTY_TREE, "HEAD">>
    ELSE << IF first_commit = None THEN EMPTY_TREE ELSE first_commit, head_commit >>

-----------------------------------------------------------------------------
(* Initial states                                                          *)

WriteFile(snapshot, p, content) ==
    [q \in DOMAIN snapshot \cup {p} |-> IF q = p THEN content ELSE snapshot[q]]
RemoveFile(snapshot, p) ==
    [q \in DOMAIN snapshot \ {p} |-> snapshot[q]]
MoveFile(snapshot, p, new) ==
    [q \in (DOMAIN snapshot \ {p}) \cup {new} |-> IF q = new THEN snapshot[p] ELSE snapshot[q]]

\* Root commits: one python file.
Roots == {WriteFile(EmptySnapshot, PA, t) : t \in Texts}

\* What a second commit does to the root: edit the file, add another one,
\* delete it, or rename it (to a python file, or to a text file).
Edits(s) ==
    {WriteFile(s, PA, t) : t \in Texts \ {s[PA]}}
        \cup {WriteFile(s, PB, t) : t \in {TA, TX}}
        \cup {RemoveFile(s, PA), MoveFile(s, PA, PB), MoveFile(s, PA, PN)}

\* The repositories: no commit yet, a root commit, or a root and a second commit.
Histories ==
    {<<>>} \cup {<<s>> : s \in Roots}
           \cup UNION {{<<s, s2>> : s2 \in Edits(s)} : s \in Roots}

\* What may lie in .docai/code_elements.json before the first run.
InitialDbFiles ==
    {[state |-> "missing", value |-> EmptyDb],
     [state |-> "invalid_json", value |-> EmptyDb],
     [state |-> "json", value |-> NoStructure]}

NoRange == <<None, None>>
NoRequest ==
    [args_before |-> None, args_after |-> None, event_name |-> None,
     event |-> NoEvent, first_commit |-> None, head_commit |-> "raises"]

Init ==
    /\ commits \in Histories
    /\ unreadable \in {{}, {PA}}
    /\ dbFile \in InitialDbFiles
    /\ reportFiles = [k \in {} |-> None]
    /\ pc = "idle"
    /\ runs = 0
    /\ custom_commit_range = <<>>
    /\ code_elements_db = EmptyDb
    /\ commit_range = NoRange
    /\ affected_files = NoFiles
    /\ added_elements = <<>>
    /\ modified_elements = <<>>
    /\ deleted_elements = <<>>
    /\ exit_code = None
    /\ request = NoRequest

-----------------------------------------------------------------------------
(* The run                                                                 *)

Repo == <<commits, unreadable>>

\* The --before / --after values tried: none, the empty tree or the root
\* commit as baseline, and the history read backwards.
ArgChoices ==
    {<<None, None>>, <<EMPTY_TREE, None>>}
        \cup (IF Len(commits) = 2 THEN {<<Shas[1], None>>, <<Shas[2], Shas[1]>>} ELSE {})

\* The push event GitHub sends for the head commit, or none.
EventChoices ==
    {<<None, NoEvent>>}
        \cup (IF commits = <<>> THEN {}
             ELSE {<<"push", [file |-> "json",
                              before |-> IF Len(commits) = 1 THEN ZERO_SHA
                                         ELSE Shas[Len(commits) - 1],
                              after |-> HeadCommit]>>})

\* main() up to the call of analyze_repo_changes: the analyzer is
\* constructed (which loads the database) and the custom range is set.
Main(args_before, args_after) ==
    /\ pc \in {"idle", "done", "failed"}
    /\ runs < MaxRuns
    /\ runs' = runs + 1
    /\ code_elements_db' = LoadCodeElementsDb(dbFile)
    /\ custom_commit_range' = MainCustomRange(args_before, args_after, FirstCommit)
    /\ commit_range' = NoRange
    /\ affected_files' = NoFiles
    /\ added_elements' = <<>>
    /\ modified_elements' = <<>>
    /\ deleted_elements' = <<>>
    /\ exit_code' = None
    /\ pc' = "analyze"
    /\ UNCHANGED <<Repo, dbFile, reportFiles, request>>

\* An exception reaches main(): it is printed and the process exits with 1.
Abort ==
    /\ pc' = "failed"
    /\ exit_code' = 1

\* Lines 502-511: the range and the affected files.
BeginAnalysis(event_name, event) ==
    /\ pc = "analyze"
    /\ LET range == GetPushCommits(custom_commit_range, event_name, event,
                                   FirstCommit, HeadCommit)
           files == GetAffectedFiles(range[1], range[2])
       IN  /\ commit_range' = range
           /\ IF files.raised
              THEN Abort /\ UNCHANGED affected_files
              ELSE /\ affected_files' = files
                   /\ pc' = "classify"
                   /\ UNCHANGED exit_code
    /\ UNCHANGED <<Repo, dbFile, reportFiles, runs, custom_commit_range,
                   code_elements_db, added_elements, modified_elements,
                   deleted_elements, request>>

CurrentAcc == Acc(code_elements_db.elements, added_elements, modified_elements,
                  deleted_elements)

\* The effect of one file's pass: an exception aborts the run, otherwise
\* the lists and the in-memory database take the pass's result. A database
\* without "elements" raises KeyError at the first element classified.
FilePass(raised, acc, rest) ==
    IF \/ raised
       \/ ~code_elements_db.wellformed /\ acc # CurrentAcc
    THEN Abort /\ UNCHANGED <<affected_files, code_elements_db, added_elements,
                              modified_elements, deleted_elements>>
    ELSE /\ affected_files' = rest
         /\ code_elements_db' = [code_elements_db EXCEPT !.elements = acc.elements]
         /\ added_elements' = acc.added
         /\ modified_elements' = acc.modified
         /\ deleted_elements' = acc.deleted
         /\ UNCHANGED <<pc, exit_code>>

\* Lines 514-589: one iteration of the loop over affected_files["modified"].
ProcessModifiedFile ==
    /\ pc = "classify"
    /\ affected_files.modified # <<>>
    /\ LET file_path == Head(affected_files.modified)
           rest      == [affected_files EXCEPT !.modified = Tail(@)]
           before    == ParseFileAtCommit(file_path, commit_range[1])
           after     == ParseFile(file_path, NoContent)
       IN  IF ~Supported(file_path)
           THEN FilePass(FALSE, CurrentAcc, rest)
           ELSE IF before.raised
           THEN FilePass(TRUE, CurrentAcc, rest)
           ELSE FilePass(after.raised,
                         ClassifyModifiedFile(before.elements, after.elements,
                                              CurrentAcc, commit_range[2]),
                         rest)
    /\ UNCHANGED <<Repo, dbFile, reportFiles, runs, custom_commit_range,
                   commit_range, request>>

\* Lines 592-614: one iteration of the loop over affected_files["added"].
ProcessAddedFile ==
    /\ pc = "classify"
    /\ affected_files.modified = <<>>
    /\ affected_files.added # <<>>
    /\ LET file_path == Head(affected_files.added)
           rest      == [affected_files EXCEPT !.added = Tail(@)]
           parsed    == ParseFile(file_path, NoContent)
       IN  IF ~Supported(file_path)
           THEN FilePass(FALSE, CurrentAcc, rest)
           ELSE FilePass(parsed.raised,
                         AddAll(parsed.elements, CurrentAcc, commit_range[2]), rest)
    /\ UNCHANGED <<Repo, dbFile, reportFiles, runs, custom_commit_range,
                   commit_range, request>>

\* Lines 617-636: one iteration of the loop over affected_files["deleted"].
ProcessDeletedFile ==
    /\ pc = "classify"
    /\ affected_files.modified = <<>>
    /\ affected_files.added = <<>>
    /\ affected_files.deleted # <<>>
    /\ LET file_path == Head(affected_files.deleted)
           rest      == [affected_files EXCEPT !.deleted = Tail(@)]
           parsed    == ParseFileAtCommit(file_path, commit_range[1])
       IN  IF ~Supported(file_path)
           THEN FilePass(FALSE, CurrentAcc, rest)
           ELSE FilePass(parsed.raised,
                         DeleteAll(parsed.elements, CurrentAcc, commit_range[2]), rest)
    /\ UNCHANGED <<Repo, dbFile, reportFiles, runs, custom_commit_range,
                   commit_range, request>>

\* Lines 638-642: the metadata is set and the database is saved.
SaveDatabase ==
    /\ pc = "classify"
    /\ affected_files.modified = <<>>
    /\ affected_files.added = <<>>
    /\ affected_files.deleted = <<>>
    /\ IF ~code_elements_db.wellformed
       THEN Abort /\ UNCHANGED <<code_elements_db, dbFile>>
       ELSE LET db == [code_elements_db EXCEPT !.last_processed_commit = commit_range[2]]
            IN  /\ code_elements_db' = db
                /\ dbFile' = SaveCodeElementsDb(db)
                /\ pc' = "saved"
                /\ UNCHANGED exit_code
    /\ UNCHANGED <<Repo, reportFiles, runs, custom_commit_range, commit_range,
                   affected_files, added_elements, modified_elements,
                   deleted_elements, request>>

\* Lines 645-662: the report of the run.
Report ==
    [affected_elements |-> [added |-> added_elements,
                            modified |-> modified_elements,
                            deleted |-> deleted_elements],
     stats |-> [added |-> Len(added_elements),
                modified |-> Len(modified_elements),
                deleted |-> Len(deleted_elements),
                total_elements |-> Cardinality(DOMAIN code_elements_db.elements)],
     commit_range |-> [before |-> commit_range[1], after |-> commit_range[2]]]

\* Lines 664-674: the report is written to change_report_<after[:7]>.json
\* and main() returns.
WriteReport ==
    /\ pc = "saved"
    /\ reportFiles' = [k \in DOMAIN reportFiles \cup {commit_range[2]} |->
                          IF k = commit_range[2] THEN Report ELSE reportFiles[k]]
    /\ pc' = "done"
    /\ exit_code' = 0
    /\ UNCHANGED <<Repo, dbFile, runs, custom_commit_range, code_elements_db,
                   commit_range, affected_files, added_elements, modified_elements,
                   deleted_elements, request>>

Next ==
    \/ \E args \in ArgChoices : Main(args[1], args[2])
    \/ \E ev \in EventChoices : BeginAnalysis(ev[1], ev[2])
    \/ ProcessModifiedFile
    \/ ProcessAddedFile
    \/ ProcessDeletedFile
    \/ SaveDatabase
    \/ WriteReport

Spec == Init /\ [][Next]_vars

-----------------------------------------------------------------------------
(* Range resolution on its own: main() and _get_push_commits applied to    *)
(* every combination of command line, CI environment and repository.       *)

Events ==
    {NoEvent, [file |-> "invalid", before |-> None, after |-> None]}
        \cup {[file |-> "json", before |-> b, after |-> a] :
                 b \in {None, "", ZERO_SHA, "c1"}, a \in {None, "c2"}}

Requests ==
    [args_before : {None, EMPTY_TREE, "c1"},
     args_after : {None, "c2"},
     event_name : {None, "push", "pull_request"},
     event : Events,
     first_commit : {None, "c1", RAISES},
     head_commit : {"c2", RAISES}]

InitRange ==
    /\ request \in Requests
    /\ commits = <<>>
    /\ unreadable = {}
    /\ dbFile = [state |-> "missing", value |-> EmptyDb]
    /\ reportFiles = [k \in {} |-> None]
    /\ pc = "main"
    /\ runs = 0
    /\ custom_commit_range = <<>>
    /\ code_elements_db = EmptyDb
    /\ commit_range = NoRange
    /\ affected_files = NoFiles
    /\ added_elements = <<>>
    /\ modified_elements = <<>>
    /\ deleted_elements = <<>>
    /\ exit_code = None

\* main(), lines 692-725.
SetCustomRange ==
    /\ pc = "main"
    /\ custom_commit_range' = MainCustomRange(request.args_before, request.args_after,
                                              request.first_commit)
    /\ pc' = "range"
    /\ UNCHANGED <<Repo, dbFile, reportFiles, runs, code_elements_db, commit_range,
                   affected_files, added_elements, modified_elements,
                   deleted_elements, exit_code, request>>

\* Line 502: before_commit, after_commit = self._get_push_commits()
ResolveRange ==
    /\ pc = "range"
    /\ commit_range' = GetPushCommits(custom_commit_range, request.event_name,
                                      request.event, request.first_commit,
                                      request.head_commit)
    /\ pc' = "resolved"
    /\ UNCHANGED <<Repo, dbFile, reportFiles, runs, custom_commit_range,
                   code_elements_db, affected_files, added_elements,
                   modified_elements, deleted_elements, exit_code, request>>

NextRange == SetCustomRange \/ ResolveRange

SpecRange == InitRange /\ [][NextRange]_vars

-----------------------------------------------------------------------------
(* Properties                                                              *)

Range(seq) == {seq[i] : i \in DOMAIN seq}
\* What a step appended to a list.
Appended(new, old) == SubSeq(new, Len(old) + 1, Len(new))
Extends(new, old) == Len(new) >= Len(old) /\ SubSeq(new, 1, Len(old)) = old
NoDuplicates(seq) == \A i, j \in DOMAIN seq : seq[i] = seq[j] => i = j
Ids(seq) == {GenerateElementId(seq[i]) : i \in DOMAIN seq}

\* The classification is complete: every affected file has been processed.
Classified ==
    \/ pc \in {"saved", "done"}
    \/ /\ pc = "classify"
       /\ affected_files.modified = <<>>
       /\ affected_files.added = <<>>
       /\ affected_files.deleted = <<>>

\* The status lines git prints for the run's range (none when the diff fails).
RangeDiff ==
    IF IsTreeish(commit_range[1]) /\ IsTreeish(commit_range[2])
    THEN Range(DiffNameStatus(commit_range[1], commit_range[2]))
    ELSE {}

\* C1: for every file with diff status Modified and a supported language,
\* the pass over the file reports exactly: as added, the elements of the
\* after-map whose identity is not in the before-map; as modified, the
\* elements of the after-map whose identity is in both maps with a different
\* source text; as deleted, the elements of the before-map whose identity is
\* not in the after-map; each once, and nothing else (so an identity in both
\* maps with the same source text is in none of the lists).
C1_ModifiedFileClassification ==
    [][ ( /\ pc = "classify"
          /\ affected_files.modified # <<>>
          /\ Supported(Head(affected_files.modified))
          /\ pc' = "classify" )
        =>
        LET file_path == Head(affected_files.modified)
            BeforeMap == ElementsMap(ParseFileAtCommit(file_path, commit_range[1]).elements)
            AfterMap  == ElementsMap(ParseFile(file_path, NoContent).elements)
            both      == DOMAIN BeforeMap \cap DOMAIN AfterMap
            newAdded    == Appended(added_elements', added_elements)
            newModified == Appended(modified_elements', modified_elements)
            newDeleted  == Appended(deleted_elements', deleted_elements)
        IN  /\ Extends(added_elements', added_elements)
            /\ Extends(modified_elements', modified_elements)
            /\ Extends(deleted_elements', deleted_elements)
            /\ NoDuplicates(newAdded) /\ NoDuplicates(newModified) /\ NoDuplicates(newDeleted)
            /\ Range(newAdded) = {AfterMap[id] : id \in DOMAIN AfterMap \ DOMAIN BeforeMap}
            /\ Range(newModified) =
                    {AfterMap[id] : id \in {i \in both : BeforeMap[i].code # AfterMap[i].code}}
            /\ Range(newDeleted) = {BeforeMap[id] : id \in DOMAIN BeforeMap \ DOMAIN AfterMap}
            /\ \A id \in both :
                    BeforeMap[id].code = AfterMap[id].code =>
                        id \notin Ids(newAdded) \cup Ids(newModified) \cup Ids(newDeleted)
      ]_vars

\* C1's case: one modified file gave an added, a modified, a deleted and an
\* unchanged element.
C1_Witness ==
    /\ Classified
    /\ added_elements # <<>> /\ modified_elements # <<>> /\ deleted_elements # <<>>
    /\ \E line \in RangeDiff :
          /\ line.status = "M"
          /\ \E e \in Range(ParseFile(line.parts[1], NoContent).elements) :
                GenerateElementId(e) \notin
                    Ids(added_elements) \cup Ids(modified_elements) \cup Ids(deleted_elements)

\* A run repeats the range of an earlier completed run, whose report is
\* still on disk; it is about to write its own.
SameRangeRerun ==
    /\ pc = "saved"
    /\ commit_range[2] \in DOMAIN reportFiles
    /\ reportFiles[commit_range[2]].commit_range =
            [before |-> commit_range[1], after |-> commit_range[2]]

\* C2 as stated: a second run over the same range, after the first run
\* persisted the database, reports nothing.
C2_SecondRunIsEmpty ==
    SameRangeRerun =>
        added_elements = <<>> /\ modified_elements = <<>> /\ deleted_elements = <<>>

\* C2 as amended: a second run over the same range reports exactly what the
\* first run reported (the classification compares the two revisions and
\* never consults the database).
C2_SecondRunRepeatsFirst ==
    SameRangeRerun =>
        Report.affected_elements = reportFiles[commit_range[2]].affected_elements

\* C2's case: the repeated run has something to report.
C2_Witness ==
    SameRangeRerun /\ added_elements # <<>> /\ deleted_elements # <<>>

\* The classification of a first run, without database, without --before /
\* --after, is complete.
FirstRunClassified ==
    /\ pc = "classify"
    /\ Classified
    /\ runs = 1
    /\ dbFile.state = "missing"
    /\ custom_commit_range = <<>>

\* C3 as stated: on such a run the range is (root commit, head) and every
\* element of every tracked file with a supported language is reported added.
C3_FirstRunAddsEverything ==
    FirstRunClassified =>
        /\ commit_range = <<Shas[1], HeadCommit>>
        /\ \A p \in DOMAIN WorkTree :
              Supported(p) => Range(ParseContent(p, WorkTree[p])) \subseteq Range(added_elements)

\* C3 as amended: the range is (root commit, head); the elements of a
\* supported file that came after the root commit are reported added, and
\* no element of a file that is the same as in the root commit is reported.
C3_FirstRunAddsWhatFollowsRoot ==
    FirstRunClassified =>
        /\ commit_range = <<Shas[1], HeadCommit>>
        /\ \A p \in DOMAIN WorkTree :
              Supported(p) =>
                /\ p \notin DOMAIN commits[1] =>
                      Range(ParseContent(p, WorkTree[p])) \subseteq Range(added_elements)
                /\ (p \in DOMAIN commits[1] /\ commits[1][p] = WorkTree[p]) =>
                      \A e \in Range(added_elements) \cup Range(modified_elements)
                                  \cup Range(deleted_elements) : e.file_path # p

\* C3's case: a first run on a two-commit history that reports the elements
\* of a new file and leaves out those of a file kept from the root commit.
C3_Witness ==
    /\ FirstRunClassified
    /\ Len(commits) = 2
    /\ added_elements # <<>>
    /\ \E p \in DOMAIN WorkTree \cap DOMAIN commits[1] :
          /\ Supported(p)
          /\ commits[1][p] = WorkTree[p]
          /\ ParseContent(p, WorkTree[p]) # <<>>

\* The database file holds a well-formed database.
Intact(file) == file.state = "json" /\ file.value.wellformed

\* C4: the database never loses an identity. A run starts from the records
\* of an intact database file, no step of a run removes a key from the
\* in-memory database, a save over an intact file keeps all its keys, and
\* the report's stats.total_elements is the size of the saved database;
\* hence total_elements is at least the size before the run and equal to
\* the size after it.
C4_AdditiveMonotonicity ==
    [][ /\ (pc' = "analyze" /\ Intact(dbFile)) =>
              code_elements_db'.elements = dbFile.value.elements
        /\ pc' # "analyze" =>
              DOMAIN code_elements_db.elements \subseteq DOMAIN code_elements_db'.elements
        /\ (Intact(dbFile) /\ dbFile' # dbFile) =>
              /\ Intact(dbFile')
              /\ DOMAIN dbFile.value.elements \subseteq DOMAIN dbFile'.value.elements
        /\ (pc = "saved" /\ pc' = "done") =>
              /\ reportFiles'[commit_range[2]].stats.total_elements
                    = Cardinality(DOMAIN dbFile'.value.elements)
              /\ code_elements_db' = dbFile'.value
      ]_vars

\* C4's case: a later run of a sequence annotated a recorded element as
\* deleted and completed.
C4_Witness ==
    /\ pc = "done"
    /\ runs >= 2
    /\ \E e \in Range(deleted_elements) :
          /\ GenerateElementId(e) \in DOMAIN dbFile.value.elements
          /\ dbFile.value.elements[GenerateElementId(e)].deleted_at = commit_range[2]

Count(seq, e) == Cardinality({i \in DOMAIN seq : seq[i] = e})

\* A rename line of the run's diff and the content the file has on both sides.
RenameLines == IF IsCommit(commit_range[1]) THEN {l \in RangeDiff : l.status = "R"} ELSE {}
RenamedContent(line) == TreeAt(commit_range[1])[line.parts[1]]

\* What C5 says of one renamed file: each element once in deleted under the
\* old path, once in added under the new path, same text, other identity,
\* and none in modified.
RenameReportedAsDeleteAndAdd(line) ==
    LET olds == ParseContent(line.parts[1], RenamedContent(line))
        news == ParseContent(line.parts[2], RenamedContent(line))
    IN  /\ \A i \in DOMAIN olds :
              /\ Count(deleted_elements, olds[i]) = 1
              /\ Count(added_elements, news[i]) = 1
              /\ olds[i].code = news[i].code
              /\ GenerateElementId(olds[i]) # GenerateElementId(news[i])
        /\ \A e \in Range(modified_elements) :
              e.file_path \notin {line.parts[1], line.parts[2]}

\* C5 as stated: every file reported as renamed without a content change.
C5_RenameBlindness ==
    Classified => \A line \in RenameLines : RenameReportedAsDeleteAndAdd(line)

\* Both sides of the rename are read: both paths have a supported language,
\* git prints the old content, the working tree holds the new path with it.
RenameReadable(line) ==
    /\ Supported(line.parts[1]) /\ Supported(line.parts[2])
    /\ GetFileContentAtCommit(line.parts[1], commit_range[1]).ok
    /\ line.parts[2] \in DOMAIN WorkTree
    /\ WorkTree[line.parts[2]] = RenamedContent(line)

\* C5 as amended: the same, for the renames both sides of which are read.
C5_RenameBlindnessWhenReadable ==
    Classified =>
        \A line \in RenameLines : RenameReadable(line) => RenameReportedAsDeleteAndAdd(line)

\* C5's case: a completed run over a readable rename of a file with elements.
C5_Witness ==
    /\ pc = "done"
    /\ \E line \in RenameLines :
          /\ RenameReadable(line)
          /\ ParseContent(line.parts[1], RenamedContent(line)) # <<>>

\* The next file to process is one on which the parser raises.
PendingParseRaises ==
    IF affected_files.modified # <<>>
    THEN LET f == Head(affected_files.modified)
         IN  Supported(f) /\ ( \/ ParseFileAtCommit(f, commit_range[1]).raised
                               \/ ParseFile(f, NoContent).raised )
    ELSE IF affected_files.added # <<>>
    THEN LET f == Head(affected_files.added)
         IN  Supported(f) /\ ParseFile(f, NoContent).raised
    ELSE IF affected_files.deleted # <<>>
    THEN LET f == Head(affected_files.deleted)
         IN  Supported(f) /\ ParseFileAtCommit(f, commit_range[1]).raised
    ELSE FALSE

\* C6 as stated: a parser failure on one file is caught, so no run is ever
\* aborted at a file on which the parser raised.
C6_ParserFailureIsolated == ~(pc = "failed" /\ PendingParseRaises)

\* C7: when the content of a modified, supported file cannot be retrieved
\* at the before revision, its before-elements are empty and the failure
\* does not abort the run (the pass fails only if the parser raises on the
\* after-snapshot or the loaded database has no structure); the pass then
\* reports every element of the after-map as added and nothing as modified
\* or deleted.
C7_RetrievalFailureNonFatal ==
    [][ ( /\ pc = "classify"
          /\ affected_files.modified # <<>>
          /\ Supported(Head(affected_files.modified))
          /\ ~GetFileContentAtCommit(Head(affected_files.modified), commit_range[1]).ok )
        =>
        LET f     == Head(affected_files.modified)
            after == ParseFile(f, NoContent)
            AfterMap == ElementsMap(after.elements)
        IN  /\ ParseFileAtCommit(f, commit_range[1]) = NoElements
            /\ pc' = "failed" =>
                  after.raised \/ (~code_elements_db.wellformed /\ after.elements # <<>>)
            /\ pc' # "failed" =>
                  /\ pc' = "classify"
                  /\ Extends(added_elements', added_elements)
                  /\ Range(Appended(added_elements', added_elements))
                        = {AfterMap[id] : id \in DOMAIN AfterMap}
                  /\ modified_elements' = modified_elements
                  /\ deleted_elements' = deleted_elements
      ]_vars

\* C7's case: the run went past a modified file whose before-content git
\* could not print, and reported its elements as added.
C7_Witness ==
    /\ Classified
    /\ IsCommit(commit_range[1])
    /\ \E line \in RangeDiff :
          /\ line.status = "M"
          /\ Supported(line.parts[1])
          /\ ~GetFileContentAtCommit(line.parts[1], commit_range[1]).ok
          /\ \E e \in Range(added_elements) : e.file_path = line.parts[1]

\* C8 as stated: whatever lies in the database file, a run starts from the
\* file's database if it is intact and from the empty database otherwise,
\* and is never aborted for the database it loaded.
C8_LoadNeverFails ==
    /\ (pc = "analyze" /\ ~Intact(dbFile)) => code_elements_db = EmptyDb
    /\ pc = "failed" => code_elements_db.wellformed

\* The request names a range on the command line.
ExplicitRange == request.args_before # None \/ request.args_after # None
\* The request runs under a push event whose data has both revisions.
PushEventData ==
    /\ request.event_name = "push"
    /\ request.event.file = "json"
    /\ Truthy(request.event.before) /\ Truthy(request.event.after)

\* C9: the resolved range is always a pair of revisions; a range given on
\* the command line is returned as main() set it, whatever the CI
\* environment; otherwise the before/after of a push event that carries
\* both; otherwise (first root commit, head commit); and without any commit
\* (empty tree, head).
C9_RangePriority ==
    pc = "resolved" =>
        /\ Len(commit_range) = 2
        /\ \A i \in {1, 2} : commit_range[i] \notin {None, RAISES, ""}
        /\ ExplicitRange =>
              /\ commit_range = custom_commit_range
              /\ request.args_before # None => commit_range[1] = request.args_before
              /\ request.args_after # None => commit_range[2] = request.args_after
        /\ (~ExplicitRange /\ PushEventData) =>
              commit_range = <<request.event.before, request.event.after>>
        /\ ( /\ ~ExplicitRange /\ ~PushEventData
             /\ request.first_commit \notin {None, RAISES}
             /\ request.head_commit # RAISES ) =>
              commit_range = <<request.first_commit, request.head_commit>>
        /\ (~ExplicitRange /\ ~PushEventData /\ request.first_commit = None) =>
              commit_range = <<EMPTY_TREE, IF request.head_commit = RAISES
                                           THEN "HEAD" ELSE request.head_commit>>

\* C9's case: a range on the command line was resolved under a push event
\* that carries another range.
C9_Witness ==
    /\ pc = "resolved"
    /\ request.args_before = EMPTY_TREE
    /\ request.args_after # None
    /\ PushEventData
    /\ commit_range = <<request.args_before, request.args_after>>
    /\ commit_range # <<request.event.before, request.event.after>>

\* The identities in the before- and after-snapshots of the supported files
\* the run processed.
ObservedIds ==
    LET files == GetAffectedFiles(commit_range[1], commit_range[2])
        before(f) == Ids(ParseFileAtCommit(f, commit_range[1]).elements)
        after(f)  == Ids(ParseFile(f, NoContent).elements)
    IN  UNION ( {before(f) \cup after(f) : f \in Range(files.modified)}
                  \cup {after(f) : f \in Range(files.added)}
                  \cup {before(f) : f \in Range(files.deleted)} )

\* C10 as stated: after a completed run every identity of the snapshots of
\* the processed files is a key of the database.
C10_EveryObservedIdentityStored ==
    pc \in {"saved", "done"} => ObservedIds \subseteq DOMAIN dbFile.value.elements

\* C10 as amended: the keys of the database a run saves are the keys it
\* loaded and the identities it classified as added or modified, no others.
C10_AddedAndModifiedStored ==
    [][ (pc = "classify" /\ pc' = "saved") =>
          DOMAIN dbFile'.value.elements =
              (IF Intact(dbFile) THEN DOMAIN dbFile.value.elements ELSE {})
                  \cup Ids(added_elements) \cup Ids(modified_elements)
      ]_vars

\* C10's case: a completed run recorded an added element and left an
\* identity it saw without a record.
C10_Witness ==
    /\ pc = "done"
    /\ added_elements # <<>>
    /\ Ids(added_elements) \subseteq DOMAIN dbFile.value.elements
    /\ ~(ObservedIds \subseteq DOMAIN dbFile.value.elements)

\* C11: in every pass over a file, an element reported as deleted whose
\* identity the database holds has its record annotated with deleted_at =
\* after revision and is otherwise unchanged; one whose identity the
\* database does not hold gets no record; the records of the identities the
\* pass did not classify are unchanged; and the pass over a deleted file
\* reports every element of the before-snapshot and creates no record.
C11_DeletionOnlyAnnotates ==
    [][ (pc = "classify" /\ pc' = "classify") =>
        LET old == code_elements_db.elements
            new == code_elements_db'.elements
            newDeleted == Ids(Appended(deleted_elements', deleted_elements))
            written == Ids(Appended(added_elements', added_elements))
                          \cup Ids(Appended(modified_elements', modified_elements))
            deletedFile == /\ affected_files.modified = <<>>
                           /\ affected_files.added = <<>>
                           /\ Supported(Head(affected_files.deleted))
        IN  /\ Extends(deleted_elements', deleted_elements)
            /\ \A id \in newDeleted :
                  IF id \in DOMAIN old
                  THEN /\ id \in DOMAIN new
                       /\ new[id] = [old[id] EXCEPT !.deleted_at = commit_range[2]]
                  ELSE id \notin DOMAIN new
            /\ \A id \in DOMAIN old \ (newDeleted \cup written) :
                  id \in DOMAIN new /\ new[id] = old[id]
            /\ DOMAIN new \subseteq DOMAIN old \cup written
            /\ deletedFile =>
                  /\ Appended(deleted_elements', deleted_elements) =
                        ParseFileAtCommit(Head(affected_files.deleted), commit_range[1]).elements
                  /\ DOMAIN new = DOMAIN old
      ]_vars

\* C11's case: a completed run reported a recorded element as deleted; its
\* record kept the text and the added_at of the earlier run and got the
\* deletion stamp.
C11_Witness ==
    /\ pc = "done"
    /\ \E e \in Range(deleted_elements) :
          LET id == GenerateElementId(e)
          IN  /\ id \in DOMAIN dbFile.value.elements
              /\ dbFile.value.elements[id].deleted_at = commit_range[2]
              /\ dbFile.value.elements[id].added_at \notin {None, commit_range[2]}
              /\ dbFile.value.elements[id].code = e.code

C13_ModifiedKeepsAddedAt ==
    [][ (pc = "classify" /\ pc' = "saved") =>
          \A i \in DOMAIN modified_elements :
              LET e   == modified_elements[i]
                  id  == GenerateElementId(e)
                  new == dbFile'.value.elements
              IN  /\ id \in DOMAIN new
                  /\ new[id].last_modified = commit_range[2]
                  /\ (\A j \in DOMAIN modified_elements :
                          (j > i) => GenerateElementId(modified_elements[j]) # id)
                        => new[id].code = e.code
                  /\ ( /\ Intact(dbFile)
                       /\ id \in DOMAIN dbFile.value.elements
                       /\ dbFile.value.elements[id].added_at # None )
                        => new[id].added_at = dbFile.value.elements[id].added_at
      ]_vars

\* No two entries of the list have the same identity.
OncePerIdentity(seq) ==
    \A i, j \in DOMAIN seq :
        GenerateElementId(seq[i]) = GenerateElementId(seq[j]) => i = j

\* C14 as stated: each identity is reported at most once in the added, the
\* modified and the deleted list of a run, for modified, added and deleted
\* files alike, and an element reported as added or modified is the last
\* one of its identity in its file.
C14_CollisionsResolveToLater ==
    /\ OncePerIdentity(added_elements)
    /\ OncePerIdentity(modified_elements)
    /\ OncePerIdentity(deleted_elements)
    /\ \A e \in Range(added_elements) \cup Range(modified_elements) :
          e = ElementsMap(ParseFile(e.file_path, NoContent).elements)[GenerateElementId(e)]

\* C15: the database file changes only in the save of a run, which comes
\* after every affected file is classified and writes the in-memory
\* database with last_processed_commit = after revision; a report is
\* written only after that save, with the file holding this run's
\* database, and leaves the file alone; a run that aborts changes neither
\* the database file nor the reports, and does so before its save.
C15_PersistenceOrdering ==
    [][ /\ dbFile' # dbFile => (pc = "classify" /\ pc' = "saved")
        /\ (pc = "classify" /\ pc' = "saved") =>
              /\ Classified
              /\ dbFile' = [state |-> "json", value |-> code_elements_db']
              /\ dbFile'.value.last_processed_commit = commit_range[2]
              /\ reportFiles' = reportFiles
        /\ reportFiles' # reportFiles =>
              /\ pc = "saved" /\ pc' = "done"
              /\ dbFile = [state |-> "json", value |-> code_elements_db]
              /\ dbFile.value.last_processed_commit = commit_range[2]
              /\ dbFile' = dbFile
              /\ DOMAIN reportFiles' = DOMAIN reportFiles \cup {commit_range[2]}
        /\ pc = "saved" => pc' \in {"saved", "done"}
        /\ (pc # "failed" /\ pc' = "failed") =>
              /\ pc \in {"analyze", "classify"}
              /\ dbFile' = dbFile
              /\ reportFiles' = reportFiles
        /\ pc \in {"idle", "done", "failed"} => dbFile' = dbFile /\ reportFiles' = reportFiles
      ]_vars

\* C15's case: a run aborted after an earlier run had completed; the
\* database file and the only report are those of the earlier run.
C15_Witness ==
    /\ pc = "failed"
    /\ runs >= 2
    /\ Intact(dbFile)
    /\ dbFile.value.elements # EmptyElements
    /\ commit_range[2] \notin {None, dbFile.value.last_processed_commit}
    /\ DOMAIN reportFiles = {dbFile.value.last_processed_commit}

====
